---- MODULE Spec2Model ----
(***************************************************************************)
(* A model of notion_df/configs.py: the property-config variants and their *)
(* validators, the type registry, the config parser, schema inference from *)
(* a dataframe, the compatibility check and the value transformation.      *)
(*                                                                         *)
(* Python objects are encoded as records.  Text that the code computes     *)
(* (class names, type tags) is a sequence of one-character strings until   *)
(* the computation is over, and a string afterwards.                       *)
(***************************************************************************)
EXTENDS Integers, Sequences, FiniteSets, TLC

VARIABLES
  op,         \* the call that produced this state
  data,       \* parse_single_config's argument
  raw,        \* from_raw's argument
  df,         \* from_df's dataframe
  title_col,  \* from_df's title_col
  column,     \* _infer_series_config's argument
  schema,     \* the DatabaseSchema the last from_raw or from_df returned
  origin,     \* the constructor that returned schema
  tdf,        \* the dataframe given to transform or is_df_compatible
  result,     \* the config parse_single_config or _infer_series_config returned
  handed,     \* the list _infer_series_config gave to SelectOptions.from_value
  out,        \* the dataframe transform returned
  verdict,    \* what is_df_compatible returned
  error       \* the exception the call raised, NoError if none

vars == <<op, data, raw, df, title_col, column, schema, origin, tdf, result, handed, out, verdict, error>>

(***************************************************************************)
(* Python values.                                                          *)
(***************************************************************************)
\* Python's None, as the value of an Optional[str] field.
None == "None"

\* A mapping key that the payload does not carry.
Absent == "<absent>"

\* The Dict-annotated fields see a mapping through its emptiness.
EmptyDict == "{}"

NonEmptyDict == "{...}"

\* The fields annotated with a model of notion_df.base see a value through
\* whether that model accepts it.
WellFormed == "<well-formed>"

Malformed == "<malformed>"

NoError == "<no error>"

(***************************************************************************)
(* The declared variants, in the order of their class statements, which is *)
(* the order of BasePropertyConfig.__subclasses__().                       *)
(***************************************************************************)
PropertyConfigClasses ==
  <<
    [name |-> <<"T", "i", "t", "l", "e", "C", "o", "n", "f", "i", "g">>,
     field |-> "title", annotation |-> "Dict"],
    [name |-> <<"R", "i", "c", "h", "T", "e", "x", "t", "C", "o", "n", "f", "i", "g">>,
     field |-> "rich_text", annotation |-> "Dict"],
    [name |-> <<"N", "u", "m", "b", "e", "r", "C", "o", "n", "f", "i", "g">>,
     field |-> "number", annotation |-> "Required"],
    [name |-> <<"S", "e", "l", "e", "c", "t", "C", "o", "n", "f", "i", "g">>,
     field |-> "select", annotation |-> "Optional"],
    [name |-> <<"M", "u", "l", "t", "i", "S", "e", "l", "e", "c", "t", "C", "o", "n", "f", "i", "g">>,
     field |-> "multi_select", annotation |-> "Optional"],
    [name |-> <<"D", "a", "t", "e", "C", "o", "n", "f", "i", "g">>,
     field |-> "date", annotation |-> "Dict"],
    [name |-> <<"P", "e", "o", "p", "l", "e", "C", "o", "n", "f", "i", "g">>,
     field |-> "people", annotation |-> "Dict"],
    [name |-> <<"F", "i", "l", "e", "s", "C", "o", "n", "f", "i", "g">>,
     field |-> "files", annotation |-> "Dict"],
    [name |-> <<"C", "h", "e", "c", "k", "b", "o", "x", "C", "o", "n", "f", "i", "g">>,
     field |-> "checkbox", annotation |-> "Dict"],
    [name |-> <<"U", "R", "L", "C", "o", "n", "f", "i", "g">>,
     field |-> "url", annotation |-> "Dict"],
    [name |-> <<"E", "m", "a", "i", "l", "C", "o", "n", "f", "i", "g">>,
     field |-> "email", annotation |-> "Dict"],
    [name |-> <<"P", "h", "o", "n", "e", "N", "u", "m", "b", "e", "r", "C", "o", "n", "f", "i", "g">>,
     field |-> "phone_number", annotation |-> "Dict"],
    [name |-> <<"F", "o", "r", "m", "u", "l", "a", "C", "o", "n", "f", "i", "g">>,
     field |-> "formula", annotation |-> "Required"],
    [name |-> <<"R", "e", "l", "a", "t", "i", "o", "n", "C", "o", "n", "f", "i", "g">>,
     field |-> "relation", annotation |-> "Required"],
    [name |-> <<"R", "o", "l", "l", "u", "p", "C", "o", "n", "f", "i", "g">>,
     field |-> "roll_up", annotation |-> "Required"],
    [name |-> <<"C", "r", "e", "a", "t", "e", "d", "T", "i", "m", "e", "C", "o", "n", "f", "i", "g">>,
     field |-> "created_time", annotation |-> "Dict"],
    [name |-> <<"C", "r", "e", "a", "t", "e", "d", "B", "y", "C", "o", "n", "f", "i", "g">>,
     field |-> "created_by", annotation |-> "Dict"],
    [name |-> <<"L", "a", "s", "t", "E", "d", "i", "t", "e", "d", "T", "i", "m", "e", "C", "o", "n", "f", "i", "g">>,
     field |-> "last_edited_time", annotation |-> "Dict"],
    [name |-> <<"L", "a", "s", "t", "E", "d", "i", "t", "e", "d", "B", "y", "C", "o", "n", "f", "i", "g">>,
     field |-> "last_edited_by", annotation |-> "Dict"]
  >>

UpperCase == <<"A", "B", "C", "D", "E", "F", "G", "H", "I", "J", "K", "L", "M", "N", "O", "P", "Q", "R", "S", "T", "U", "V", "W", "X", "Y", "Z">>

LowerCase == <<"a", "b", "c", "d", "e", "f", "g", "h", "i", "j", "k", "l", "m", "n", "o", "p", "q", "r", "s", "t", "u", "v", "w", "x", "y", "z">>

IsUpper(c) == \E i \in 1..Len(UpperCase) : UpperCase[i] = c

\* str.lower() on one character.
Lower(c) == IF IsUpper(c) THEN LowerCase[CHOOSE i \in 1..Len(UpperCase) : UpperCase[i] = c] ELSE c

RECURSIVE Join(_)
\* "".join(chars)
Join(s) == IF s = <<>> THEN "" ELSE Head(s) \o Join(Tail(s))

RECURSIVE StrReplace(_, _, _)
\* str.replace(old, new): every non-overlapping occurrence, left to right.
StrReplace(s, old, new) ==
  IF Len(s) < Len(old) THEN s
  ELSE IF SubSeq(s, 1, Len(old)) = old
       THEN new \o StrReplace(SubSeq(s, Len(old) + 1, Len(s)), old, new)
       ELSE <<Head(s)>> \o StrReplace(Tail(s), old, new)

RECURSIVE SnakeFrom(_, _)
\* re.sub(r"(?<!^)(?=[A-Z])", "_", s): an underscore before every upper-case
\* letter that is not the first character.
SnakeFrom(s, i) ==
  IF i > Len(s) THEN <<>>
  ELSE (IF i > 1 /\ IsUpper(s[i]) THEN <<"_", s[i]>> ELSE <<s[i]>>) \o SnakeFrom(s, i + 1)

\* _convert_classname_to_typename
convert_classname_to_typename(s) ==
  LET t == StrReplace(StrReplace(s, <<"C","o","n","f","i","g">>, <<>>), <<"U","R","L">>, <<"U","r","l">>)
      u == SnakeFrom(t, 1)
  IN  Join([i \in 1..Len(u) |-> Lower(u[i])])

ClassName(c) == Join(c.name)

\* The keys of CONFIGS_MAPPING.
RegistryTags == {convert_classname_to_typename(PropertyConfigClasses[i].name) : i \in 1..Len(PropertyConfigClasses)}

\* CONFIGS_MAPPING: a dict comprehension, so the last class of a tag wins.
CONFIGS_MAPPING ==
  [t \in RegistryTags |->
     LET I == {i \in 1..Len(PropertyConfigClasses) :
                 convert_classname_to_typename(PropertyConfigClasses[i].name) = t}
     IN  PropertyConfigClasses[CHOOSE i \in I : \A j \in I : j <= i]]

\* cls.__fields__.keys(): the base's fields, then the variant's own.
ModelFields(c) == <<"id", "type", c.field>>

Last(s) == s[Len(s)]

(***************************************************************************)
(* The variants' validation (pydantic).  A call either returns an object   *)
(* or raises: [ok, obj, err].                                              *)
(***************************************************************************)
\* What a variable holds when the call returned no config object.
NoConfig == [cls |-> "<none>", field |-> "<none>", id |-> None, type |-> None,
             value |-> Absent, options |-> {}]

\* The None that _infer_series_config returns: an object without a type
\* attribute.
NullConfig == [cls |-> "NoneType", field |-> "<none>", id |-> None, type |-> None,
               value |-> Absent, options |-> {}]

Returns(obj) == [ok |-> TRUE, obj |-> obj, err |-> NoError]

Raises(err) == [ok |-> FALSE, obj |-> NoConfig, err |-> err]

\* BasePropertyConfig.automatically_set_type_value: [ok, v].
automatically_set_type_value(c, v) ==
  LET _type == Last(ModelFields(c))
  IN  IF v = None THEN [ok |-> TRUE, v |-> _type]
      ELSE IF _type = v THEN [ok |-> TRUE, v |-> _type]
           ELSE [ok |-> FALSE, v |-> v]

\* The validator without its check.
title_is_empty_dict_unchecked(v) == TRUE

\* The validator every Dict-annotated variant declares (title_is_empty_dict):
\* TRUE when it returns v, FALSE when it raises ValueError.
title_is_empty_dict(v) == ~(v = NonEmptyDict)

\* The field "type: Optional[str]".  @validator("type") is declared without
\* always=True, so it runs only on a value the input supplies (None included);
\* a missing key takes the default None unvalidated.
ValidateTypeField(c, v) ==
  IF v = Absent THEN [ok |-> TRUE, v |-> None]
  ELSE automatically_set_type_value(c, v)

\* The variant's own field: "<name>: Dict = {}" with its validator, a
\* required model ("number: NumberFormat") or an optional one
\* ("select: Optional[SelectOptions]").
ValidateOwnField(c, v) ==
  CASE c.annotation = "Dict" ->
         IF v = Absent THEN [ok |-> TRUE, v |-> EmptyDict]
         ELSE [ok |-> title_is_empty_dict(v), v |-> v]
    [] c.annotation = "Required" ->
         [ok |-> v = WellFormed, v |-> v]
    [] c.annotation = "Optional" ->
         IF v = Absent THEN [ok |-> TRUE, v |-> None]
         ELSE [ok |-> v = WellFormed, v |-> v]

\* The value an input mapping d = [type, key, val] gives field f; keys that
\* are no field of the model are ignored.
InputOf(d, f) == IF d.key = f THEN d.val ELSE Absent

\* Model construction, cls(**d) or parse_obj_as(cls, d): every field is
\* validated, any failure raises ValidationError.
Validate(c, d, options) ==
  LET t == ValidateTypeField(c, d.type)
      w == ValidateOwnField(c, InputOf(d, c.field))
  IN  IF t.ok /\ w.ok
      THEN Returns([cls |-> ClassName(c), field |-> c.field, id |-> None,
                    type |-> t.v, value |-> w.v, options |-> options])
      ELSE Raises("ValidationError")

\* parse_single_config: data["type"] and the registry lookup raise KeyError.
parse_single_config(d) ==
  IF d.type = Absent \/ d.type \notin DOMAIN CONFIGS_MAPPING THEN Raises("KeyError")
  ELSE Validate(CONFIGS_MAPPING[d.type], d, {})

(***************************************************************************)
(* DatabaseSchema: configs is a dict, an insertion-ordered mapping,        *)
(* modelled as a sequence of [key, config] with distinct keys.             *)
(***************************************************************************)
Keys(m) == [i \in 1..Len(m) |-> m[i].key]

HasKey(m, k) == \E i \in 1..Len(m) : m[i].key = k

Get(m, k) == m[CHOOSE i \in 1..Len(m) : m[i].key = k].config

\* m[k] = v: an existing key keeps its place, a new key goes last.
DictSet(m, k, v) ==
  IF HasKey(m, k)
  THEN [i \in 1..Len(m) |-> IF m[i].key = k THEN [key |-> k, config |-> v] ELSE m[i]]
  ELSE Append(m, [key |-> k, config |-> v])

\* What schema holds when no DatabaseSchema was returned.
NoSchema == <<[key |-> "<no schema>", config |-> NoConfig]>>

RECURSIVE from_raw_skip_invalid(_)
\* from_raw keeping the entries that parse and dropping the others.
from_raw_skip_invalid(configs) ==
  IF configs = <<>> THEN [ok |-> TRUE, schema |-> <<>>, err |-> NoError]
  ELSE LET p == parse_single_config(Head(configs).payload)
           rest == from_raw_skip_invalid(Tail(configs))
       IN  IF p.ok
           THEN [rest EXCEPT !.schema = <<[key |-> Head(configs).key, config |-> p.obj]>> \o @]
           ELSE rest

RECURSIVE from_raw(_)
\* DatabaseSchema.from_raw: the comprehension parses the entries in order and
\* the first failure propagates.
from_raw(configs) ==
  IF configs = <<>> THEN [ok |-> TRUE, schema |-> <<>>, err |-> NoError]
  ELSE LET p == parse_single_config(Head(configs).payload)
       IN  IF ~p.ok THEN [ok |-> FALSE, schema |-> NoSchema, err |-> p.err]
           ELSE LET rest == from_raw(Tail(configs))
                IN  IF ~rest.ok THEN rest
                    ELSE [rest EXCEPT !.schema = <<[key |-> Head(configs).key, config |-> p.obj]>> \o @]

(***************************************************************************)
(* Python values in dataframe cells.  An element is [ty, s, n]: its type,  *)
(* its str() and, for a number, its value.  A cell is a missing value, a   *)
(* scalar element or a list of elements.                                   *)
(***************************************************************************)
NoElem == [ty |-> "<none>", s |-> "", n |-> -1]

Int1 == [ty |-> "int", s |-> "1", n |-> 1]

Int2 == [ty |-> "int", s |-> "2", n |-> 2]

Float1 == [ty |-> "float", s |-> "1.0", n |-> 1]

PyTrue == [ty |-> "bool", s |-> "True", n |-> 1]

PyFalse == [ty |-> "bool", s |-> "False", n |-> 0]

Str1 == [ty |-> "str", s |-> "1", n |-> -1]

StrA == [ty |-> "str", s |-> "a", n |-> -1]

StrB == [ty |-> "str", s |-> "b", n |-> -1]

StrC == [ty |-> "str", s |-> "c", n |-> -1]

\* A timestamp.
Stamp == [ty |-> "Timestamp", s |-> "2021-01-01 00:00:00", n |-> -1]

StrElem(s) == [ty |-> "str", s |-> s, n |-> -1]

IsNumber(e) == e.ty \in {"int", "float", "bool"}

\* a == b in Python: numbers compare by value across int, float and bool.
PyEq(a, b) == IF IsNumber(a) /\ IsNumber(b) THEN a.n = b.n ELSE a.ty = b.ty /\ a.s = b.s

\* A list inside a list, an element of type "list", cannot be hashed.
Hashable(e) == e.ty # "list"

Missing == [kind |-> "missing", v |-> NoElem, items |-> <<>>]

Scalar(e) == [kind |-> "scalar", v |-> e, items |-> <<>>]

ListCell(items) == [kind |-> "list", v |-> NoElem, items |-> items]

\* pandas.api.types.is_list_like on a cell: a str is not list-like.
is_list_like(cell) == cell.kind = "list"

\* repr(e)
PyRepr(e) == IF e.ty = "str" THEN "'" \o e.s \o "'" ELSE e.s

RECURSIVE ReprItems(_)
ReprItems(items) ==
  IF items = <<>> THEN ""
  ELSE IF Len(items) = 1 THEN PyRepr(items[1])
       ELSE PyRepr(items[1]) \o ", " \o ReprItems(Tail(items))

\* str(x) of a cell's value.
PyStr(cell) ==
  CASE cell.kind = "missing" -> "None"
    [] cell.kind = "scalar" -> cell.v.s
    [] cell.kind = "list" -> "[" \o ReprItems(cell.items) \o "]"

(***************************************************************************)
(* Columns and dataframes.  A column is [name, dtype, categories, cells];  *)
(* a dataframe is [columns, attr], attr an attribute named "schema" set on *)
(* the object.  Column labels are distinct.                                *)
(***************************************************************************)
is_object_dtype(col) == col.dtype = "object"

\* np.number or np.bool_: a boolean dtype is numeric.
is_numeric_dtype(col) == col.dtype \in {"int64", "float64", "bool"}

\* A categorical is boolean when its categories are.
is_bool_dtype(col) ==
  \/ col.dtype = "bool"
  \/ /\ col.dtype = "category"
     /\ col.categories # <<>>
     /\ \A i \in 1..Len(col.categories) : col.categories[i].ty = "bool"

is_categorical_dtype(col) == col.dtype = "category"

is_datetime64_any_dtype(col) == col.dtype = "datetime64[ns]"

RECURSIVE Chain(_)
\* itertools.chain.from_iterable(column.to_list())
Chain(cells) == IF cells = <<>> THEN <<>> ELSE Head(cells).items \o Chain(Tail(cells))

RECURSIVE PySet(_, _)
\* set(elements): an element equal to one already in the set is dropped.
\* The result lists the set in insertion order; iteration order is the
\* caller's to choose.
PySet(elems, acc) ==
  IF elems = <<>> THEN acc
  ELSE IF \E i \in 1..Len(acc) : PyEq(acc[i], Head(elems))
       THEN PySet(Tail(elems), acc)
       ELSE PySet(Tail(elems), Append(acc, Head(elems)))

\* The class object str, as an element of a list.
StrClass == "<class 'str'>"

\* SelectOptions.from_value(values): the option set of the given values.
SelectOptions_from_value(values) == {values[i] : i \in 1..Len(values)}

NoKwargs == [type |-> Absent, key |-> Absent, val |-> Absent]

ClassOf(tag) == CONFIGS_MAPPING[tag]

\* A variant constructed with no arguments: TitleConfig(), RichTextConfig(), ...
New(tag) == Validate(ClassOf(tag), NoKwargs, {}).obj

\* SelectConfig(select=...) and MultiSelectConfig(multi_select=...)
NewSelect(tag, values) ==
  Validate(ClassOf(tag), [type |-> Absent, key |-> ClassOf(tag).field, val |-> WellFormed],
           SelectOptions_from_value(values)).obj

\* NumberConfig(number=NumberFormat(format="number"))
NewNumber ==
  Validate(ClassOf("number"), [type |-> Absent, key |-> "number", val |-> WellFormed], {}).obj

Inferred(obj, values) == [ok |-> TRUE, obj |-> obj, err |-> NoError, handed |-> values]

\* _infer_series_config.  handed is the list given to SelectOptions.from_value,
\* with the set's elements in insertion order.
infer_series_config(col) ==
  IF is_object_dtype(col)
  THEN IF \A i \in 1..Len(col.cells) : is_list_like(col.cells[i])
       THEN LET elems == Chain(col.cells)
            IN  IF \E i \in 1..Len(elems) : ~Hashable(elems[i])
                THEN [ok |-> FALSE, obj |-> NoConfig, err |-> "TypeError", handed |-> <<>>]
                ELSE LET all_possible_values == PySet(elems, <<>>)
                         strs == [i \in 1..Len(all_possible_values) |-> all_possible_values[i].s]
                     IN  Inferred(NewSelect("multi_select", strs), strs)
       ELSE Inferred(New("rich_text"), <<>>)
  ELSE IF is_numeric_dtype(col) THEN Inferred(NewNumber, <<>>)
  ELSE IF is_bool_dtype(col) THEN Inferred(New("checkbox"), <<>>)
  ELSE IF is_categorical_dtype(col)
       THEN LET strs == [i \in 1..Len(col.categories) |-> StrClass]
            IN  Inferred(NewSelect("select", strs), strs)
  ELSE IF is_datetime64_any_dtype(col) THEN Inferred(New("date"), <<>>)
  ELSE Inferred(NullConfig, <<>>)

Names(d) == [i \in 1..Len(d.columns) |-> d.columns[i].name]

\* Series.infer_objects on one column: an object column of bools becomes
\* bool, one of ints becomes int64 (float64 when values are missing), any
\* other column keeps its dtype.
infer_objects(col) ==
  LET cells == col.cells
      present == {i \in 1..Len(cells) : cells[i].kind # "missing"}
      All(ty) == \A i \in 1..Len(cells) : cells[i].kind = "scalar" /\ cells[i].v.ty = ty
      AllOrMissing(ty) ==
        /\ present # {}
        /\ \A i \in present : cells[i].kind = "scalar" /\ cells[i].v.ty = ty
  IN  IF col.dtype # "object" \/ cells = <<>> THEN col
      ELSE IF All("bool") THEN [col EXCEPT !.dtype = "bool"]
      ELSE IF All("int") THEN [col EXCEPT !.dtype = "int64"]
      ELSE IF AllOrMissing("int") \/ AllOrMissing("float") THEN [col EXCEPT !.dtype = "float64"]
      ELSE IF All("Timestamp") THEN [col EXCEPT !.dtype = "datetime64[ns]"]
      ELSE col

RECURSIVE InferColumns(_)
\* The loop of from_df: one entry per column, in column order; an exception
\* of _infer_series_config propagates.
InferColumns(cols) ==
  IF cols = <<>> THEN [ok |-> TRUE, schema |-> <<>>, err |-> NoError]
  ELSE LET rest == InferColumns(SubSeq(cols, 1, Len(cols) - 1))
           r == infer_series_config(infer_objects(Last(cols)))
       IN  IF ~rest.ok THEN rest
           ELSE IF ~r.ok THEN [ok |-> FALSE, schema |-> NoSchema, err |-> r.err]
           ELSE [rest EXCEPT !.schema = DictSet(@, Last(cols).name, r.obj)]

\* DatabaseSchema.from_df
from_df(d, tcol) ==
  LET r == InferColumns(d.columns)
  IN  IF ~r.ok THEN r
      ELSE IF tcol # None
           THEN [r EXCEPT !.schema = DictSet(@, tcol, New("title"))]
           ELSE IF d.columns = <<>> THEN [ok |-> FALSE, schema |-> NoSchema, err |-> "IndexError"]
                ELSE [r EXCEPT !.schema = DictSet(@, d.columns[1].name, New("title"))]

(***************************************************************************)
(* is_df_compatible                                                        *)
(***************************************************************************)
NoAttr == [kind |-> "none", configs |-> <<>>]

\* getattr(df, "schema"): an attribute set on the object, else the column of
\* that label (a Series), else nothing.
SchemaAttr(d) ==
  IF d.attr.kind # "none" THEN d.attr
  ELSE IF \E i \in 1..Len(d.columns) : d.columns[i].name = "schema"
       THEN [kind |-> "Series", configs |-> <<>>]
       ELSE NoAttr

\* dict == dict: the same items, in any order.
DictEq(m1, m2) == {m1[i] : i \in 1..Len(m1)} = {m2[i] : i \in 1..Len(m2)}

\* is_df_compatible without the branch for a schema attribute.
is_df_compatible_columns_only(self, d) ==
  [ok |-> TRUE, verdict |-> \A i \in 1..Len(d.columns) : HasKey(self, d.columns[i].name),
   err |-> NoError]

\* DatabaseSchema.is_df_compatible: [ok, verdict, err].  "not (Series == self)"
\* raises ValueError; an object of another class is unequal to self.
is_df_compatible(self, d) ==
  LET a == SchemaAttr(d)
  IN  IF a.kind # "none"
      THEN CASE a.kind = "Series" -> [ok |-> FALSE, verdict |-> FALSE, err |-> "ValueError"]
             [] a.kind = "DatabaseSchema" -> [ok |-> TRUE, verdict |-> DictEq(a.configs, self), err |-> NoError]
             [] OTHER -> [ok |-> TRUE, verdict |-> FALSE, err |-> NoError]
      ELSE [ok |-> TRUE, verdict |-> \A i \in 1..Len(d.columns) : HasKey(self, d.columns[i].name),
            err |-> NoError]

(***************************************************************************)
(* transform                                                               *)
(***************************************************************************)
\* CONFIGS_DF_TRANSFORMER: type tag -> the name of the function, "None" for
\* the entry that holds None.
CONFIGS_DF_TRANSFORMER ==
  [t \in {"title", "rich_text", "number", "select", "multi_select", "date", "checkbox",
          "people", "files", "url", "email", "phone_number", "formula", "relation",
          "rollup", "created_time", "created_by", "last_edited_time", "last_edited_by"} |->
     CASE t = "number" -> "None"
       [] t = "multi_select" -> "lambda"
       [] t = "date" -> "SECURE_TIME_TRANSFORM"
       [] t = "checkbox" -> "SECURE_BOOL_TRANSFORM"
       [] OTHER -> "SECURE_STR_TRANSFORM"]

\* lambda lst: [str(ele) for ele in lst] if is_list_like(lst) else str(lst)
multi_select_transform(cell) ==
  IF is_list_like(cell)
  THEN ListCell([i \in 1..Len(cell.items) |-> StrElem(cell.items[i].s)])
  ELSE Scalar(StrElem(PyStr(cell)))

\* notion_df.utils.SECURE_STR_TRANSFORM: a missing value stays missing, any
\* other value becomes its string.
SECURE_STR_TRANSFORM(cell) == IF cell.kind = "missing" THEN Missing ELSE Scalar(StrElem(PyStr(cell)))

\* notion_df.utils.SECURE_BOOL_TRANSFORM: a missing value stays missing, any
\* other value becomes its truth value.
SECURE_BOOL_TRANSFORM(cell) ==
  IF cell.kind = "missing" THEN Missing
  ELSE IF cell.kind = "list" THEN Scalar(IF cell.items = <<>> THEN PyFalse ELSE PyTrue)
  ELSE Scalar(IF cell.v.n = 0 \/ cell.v.s = "" THEN PyFalse ELSE PyTrue)

\* notion_df.utils.SECURE_TIME_TRANSFORM: a missing value stays missing, any
\* other value becomes a timestamp string.
SECURE_TIME_TRANSFORM(cell) == IF cell.kind = "missing" THEN Missing ELSE Scalar(StrElem(PyStr(cell)))

ApplyTransform(f, cell) ==
  CASE f = "lambda" -> multi_select_transform(cell)
    [] f = "SECURE_STR_TRANSFORM" -> SECURE_STR_TRANSFORM(cell)
    [] f = "SECURE_BOOL_TRANSFORM" -> SECURE_BOOL_TRANSFORM(cell)
    [] f = "SECURE_TIME_TRANSFORM" -> SECURE_TIME_TRANSFORM(cell)

\* One turn of transform's loop: [ok, col, err].
TransformColumn(self, col) ==
  IF ~HasKey(self, col.name) THEN [ok |-> FALSE, col |-> col, err |-> "KeyError"]
  ELSE LET config == Get(self, col.name)
       IN  IF config.cls = "NoneType" THEN [ok |-> FALSE, col |-> col, err |-> "AttributeError"]
           ELSE IF config.type \notin DOMAIN CONFIGS_DF_TRANSFORMER
                THEN [ok |-> FALSE, col |-> col, err |-> "KeyError"]
                ELSE LET f == CONFIGS_DF_TRANSFORMER[config.type]
                     IN  [ok |-> TRUE, err |-> NoError,
                          col |-> IF f = "None" THEN col
                                  ELSE [col EXCEPT !.cells = [i \in 1..Len(col.cells) |->
                                                                ApplyTransform(f, col.cells[i])]]]

NoDf == [columns |-> <<>>, attr |-> NoAttr]

RECURSIVE TransformColumns(_, _)
TransformColumns(self, cols) ==
  IF cols = <<>> THEN [ok |-> TRUE, columns |-> <<>>, err |-> NoError]
  ELSE LET c == TransformColumn(self, Head(cols))
       IN  IF ~c.ok THEN [ok |-> FALSE, columns |-> <<>>, err |-> c.err]
           ELSE LET rest == TransformColumns(self, Tail(cols))
                IN  IF ~rest.ok THEN rest
                    ELSE [rest EXCEPT !.columns = <<c.col>> \o @]

\* DatabaseSchema.transform: [ok, df, err]; the result is a copy.
transform(self, d) ==
  LET r == TransformColumns(self, d.columns)
  IN  [ok |-> r.ok, df |-> IF r.ok THEN [d EXCEPT !.columns = r.columns] ELSE NoDf, err |-> r.err]

(***************************************************************************)
(* The inputs the calls are made with.                                     *)
(***************************************************************************)
MaxEntries == 3

MaxCols == 2

MaxRows == 2

MaxCategories == 2

ColumnNames == {"a", "b", "c"}

RECURSIVE SeqsUpTo(_, _)
\* The sequences over S of length at most n.
SeqsUpTo(S, n) ==
  IF n = 0 THEN {<<>>}
  ELSE LET shorter == SeqsUpTo(S, n - 1)
       IN  shorter \cup {Append(q, x) : q \in shorter, x \in S}

Distinct(q) == \A i, j \in 1..Len(q) : i # j => q[i] # q[j]

Classes == {PropertyConfigClasses[i] : i \in 1..Len(PropertyConfigClasses)}

TypeValues == RegistryTags \cup {"roll_up", "unknown", None, Absent}

\* A payload is [type, key, val]: its "type" and one more key with its value.
Payloads ==
  {[type |-> t, key |-> Absent, val |-> Absent] : t \in TypeValues}
  \cup {[type |-> t, key |-> c.field, val |-> v] :
          t \in TypeValues, c \in {x \in Classes : x.annotation = "Dict"},
          v \in {EmptyDict, NonEmptyDict}}
  \cup {[type |-> t, key |-> c.field, val |-> v] :
          t \in TypeValues, c \in {x \in Classes : x.annotation # "Dict"},
          v \in {WellFormed, Malformed}}

SamplePayloads ==
  {[type |-> "title", key |-> "title", val |-> EmptyDict],
   [type |-> "multi_select", key |-> "multi_select", val |-> WellFormed],
   [type |-> "date", key |-> "date", val |-> NonEmptyDict],
   [type |-> "number", key |-> "number", val |-> Malformed],
   [type |-> "unknown", key |-> Absent, val |-> Absent],
   [type |-> "rollup", key |-> "roll_up", val |-> WellFormed]}

\* The mappings given to from_raw: distinct keys, in insertion order.
RawMappings ==
  {q \in SeqsUpTo([key : ColumnNames, payload : SamplePayloads], MaxEntries) : Distinct(Keys(q))}

Col(name, body) == [name |-> name, dtype |-> body.dtype, categories |-> body.categories,
                    cells |-> body.cells]

TextBody == [dtype |-> "object", categories |-> <<>>, cells |-> <<Scalar(StrA), Missing>>]

IntBody == [dtype |-> "int64", categories |-> <<>>, cells |-> <<Scalar(Int1), Scalar(Int2)>>]

BoolBody == [dtype |-> "bool", categories |-> <<>>, cells |-> <<Scalar(PyTrue), Scalar(PyFalse)>>]

DatetimeBody == [dtype |-> "datetime64[ns]", categories |-> <<>>, cells |-> <<Scalar(Stamp), Missing>>]

CategoryBody == [dtype |-> "category", categories |-> <<StrA, StrB>>, cells |-> <<Scalar(StrA), Missing>>]

TagsBody == [dtype |-> "object", categories |-> <<>>,
             cells |-> <<ListCell(<<StrA, StrB>>), ListCell(<<StrB, StrC>>)>>]

TagsOrMissingBody == [dtype |-> "object", categories |-> <<>>,
                      cells |-> <<ListCell(<<StrA>>), Missing>>]

TimedeltaBody == [dtype |-> "timedelta64[ns]", categories |-> <<>>, cells |-> <<Missing>>]

ObjectIntBody == [dtype |-> "object", categories |-> <<>>, cells |-> <<Scalar(Int1), Missing>>]

SampleBodies == {TextBody, IntBody, BoolBody, DatetimeBody, CategoryBody, TagsBody,
                 TagsOrMissingBody, TimedeltaBody, ObjectIntBody}

\* The dataframe of the documented example.
ExampleDf ==
  [columns |-> <<Col("name", TextBody), Col("age", IntBody), Col("active", BoolBody),
                 Col("joined", DatetimeBody)>>,
   attr |-> NoAttr]

Dataframes ==
  {[columns |-> q, attr |-> NoAttr] :
     q \in {x \in SeqsUpTo({Col(n, b) : n \in ColumnNames, b \in SampleBodies}, MaxCols) :
              Distinct([i \in 1..Len(x) |-> x[i].name])}}
  \cup {ExampleDf}

TitleCols == {None} \cup ColumnNames

SampleCells ==
  {Missing, Scalar(StrA), Scalar(PyTrue), ListCell(<<>>), ListCell(<<Int1, Str1>>),
   ListCell(<<Int1, Float1>>), ListCell(<<StrA, StrB>>), ListCell(<<StrB, StrC>>)}

Dtypes == {"object", "int64", "float64", "bool", "category", "datetime64[ns]", "timedelta64[ns]"}

\* The columns given to _infer_series_config.
Columns ==
  {[name |-> "a", dtype |-> "object", categories |-> <<>>, cells |-> q] :
     q \in SeqsUpTo(SampleCells, MaxRows)}
  \cup {[name |-> "a", dtype |-> t, categories |-> <<>>, cells |-> <<>>] :
          t \in Dtypes \ {"category"}}
  \cup {[name |-> "a", dtype |-> "category", categories |-> q, cells |-> <<>>] :
          q \in {x \in SeqsUpTo({StrA, StrB, Int1, PyTrue}, MaxCategories) : Distinct(x)}}

\* The dataframes given to transform besides the one the schema was inferred from.
TransformDataframes ==
  {[columns |-> <<Col("a", TagsOrMissingBody)>>, attr |-> NoAttr],
   [columns |-> <<Col("b", TextBody), Col("a", IntBody)>>, attr |-> NoAttr],
   [columns |-> <<Col("a", TagsBody), Col("c", BoolBody)>>, attr |-> NoAttr]}

Reverse(q) == [i \in 1..Len(q) |-> q[Len(q) + 1 - i]]

\* The dataframes given to is_df_compatible of the schema self.
CompatDataframes(self) ==
  {[columns |-> [i \in 1..Len(q) |-> Col(q[i], IntBody)], attr |-> a] :
     q \in {<<>>, <<"a">>, <<"a", "b">>, <<"c", "a">>, <<"schema">>, <<"a", "schema">>},
     a \in {NoAttr, [kind |-> "object", configs |-> <<>>],
            [kind |-> "DatabaseSchema", configs |-> self],
            [kind |-> "DatabaseSchema", configs |-> Reverse(self)],
            [kind |-> "DatabaseSchema", configs |-> <<>>]}}

(***************************************************************************)
(* The calls.  The module keeps no state between calls: what a call        *)
(* returns depends on its arguments alone, and a DatabaseSchema is never   *)
(* changed once built.  So each constructor or parser call is taken from   *)
(* the initial state, and each method call from the state that holds the   *)
(* schema it is called on.                                                 *)
(***************************************************************************)
NoPayload == [type |-> Absent, key |-> Absent, val |-> Absent]

NoColumn == [name |-> "<none>", dtype |-> "object", categories |-> <<>>, cells |-> <<>>]

Init ==
  /\ op = "init"
  /\ data = NoPayload
  /\ raw = <<>>
  /\ df = NoDf
  /\ title_col = None
  /\ column = NoColumn
  /\ schema = NoSchema
  /\ origin = "none"
  /\ tdf = NoDf
  /\ result = NoConfig
  /\ handed = <<>>
  /\ out = NoDf
  /\ verdict = FALSE
  /\ error = NoError

ParseSingleConfig ==
  /\ op = "init"
  /\ \E d \in Payloads :
    LET r == parse_single_config(d)
    IN  /\ op' = "parse_single_config"
        /\ data' = d
        /\ result' = r.obj
        /\ error' = r.err
        /\ raw' = <<>> /\ df' = NoDf /\ title_col' = None /\ column' = NoColumn
        /\ schema' = NoSchema /\ origin' = "none" /\ tdf' = NoDf /\ handed' = <<>>
        /\ out' = NoDf /\ verdict' = FALSE

InferSeriesConfig ==
  /\ op = "init"
  /\ \E c \in Columns :
    LET r == infer_series_config(c)
    IN  \E p \in Permutations(1..Len(r.handed)) :
          /\ op' = "infer_series_config"
          /\ column' = c
          /\ result' = r.obj
          /\ handed' = [i \in 1..Len(r.handed) |-> r.handed[p[i]]]
          /\ error' = r.err
          /\ data' = NoPayload /\ raw' = <<>> /\ df' = NoDf /\ title_col' = None
          /\ schema' = NoSchema /\ origin' = "none" /\ tdf' = NoDf
          /\ out' = NoDf /\ verdict' = FALSE

FromRaw ==
  /\ op = "init"
  /\ \E configs \in RawMappings :
    LET r == from_raw(configs)
    IN  /\ op' = "from_raw"
        /\ raw' = configs
        /\ schema' = r.schema
        /\ origin' = IF r.ok THEN "from_raw" ELSE "none"
        /\ error' = r.err
        /\ data' = NoPayload /\ df' = NoDf /\ title_col' = None /\ column' = NoColumn
        /\ tdf' = NoDf /\ result' = NoConfig /\ handed' = <<>>
        /\ out' = NoDf /\ verdict' = FALSE

FromDf ==
  /\ op = "init"
  /\ \E d \in Dataframes, tcol \in TitleCols :
    LET r == from_df(d, tcol)
    IN  /\ op' = "from_df"
        /\ df' = d
        /\ title_col' = tcol
        /\ schema' = r.schema
        /\ origin' = IF r.ok THEN "from_df" ELSE "none"
        /\ error' = r.err
        /\ data' = NoPayload /\ raw' = <<>> /\ column' = NoColumn
        /\ tdf' = NoDf /\ result' = NoConfig /\ handed' = <<>>
        /\ out' = NoDf /\ verdict' = FALSE

IsDfCompatible ==
  /\ op \in {"from_raw", "from_df"}
  /\ origin # "none"
  /\ \E d \in CompatDataframes(schema) :
       LET r == is_df_compatible(schema, d)
       IN  /\ op' = "is_df_compatible"
           /\ tdf' = d
           /\ verdict' = r.verdict
           /\ error' = r.err
           /\ out' = NoDf
           /\ UNCHANGED <<data, raw, df, title_col, column, schema, origin, result, handed>>

Transform ==
  /\ op \in {"from_raw", "from_df"}
  /\ origin # "none"
  /\ \E d \in TransformDataframes \cup (IF origin = "from_df" THEN {df} ELSE {}) :
       LET r == transform(schema, d)
       IN  /\ op' = "transform"
           /\ tdf' = d
           /\ out' = r.df
           /\ error' = r.err
           /\ verdict' = FALSE
           /\ UNCHANGED <<data, raw, df, title_col, column, schema, origin, result, handed>>

Next ==
  \/ ParseSingleConfig
  \/ InferSeriesConfig
  \/ FromRaw
  \/ FromDf
  \/ IsDfCompatible
  \/ Transform

Spec == Init /\ [][Next]_vars
(***************************************************************************)
(* Properties.                                                             *)
(***************************************************************************)
\* The key under which CONFIGS_MAPPING registers the class named cls.
RegistryTagOf(cls) == CHOOSE t \in DOMAIN CONFIGS_MAPPING : ClassName(CONFIGS_MAPPING[t]) = cls

\* The variant of a config, by its class; "null" for the None of an
\* uninferrable column.
VariantOf(config) == IF config.cls = "NoneType" THEN "null" ELSE RegistryTagOf(config.cls)

IsKey(k) == HasKey(schema, k)

\* C1: in every schema that from_raw or from_df returns, every config's type
\* is the registry tag of its class, never None and never another string.
C1_TypeIsRegistryTag ==
  (op \in {"from_raw", "from_df"} /\ origin # "none") =>
    \A i \in 1..Len(schema) :
      schema[i].config.cls # "NoneType" =>
        schema[i].config.type = RegistryTagOf(schema[i].config.cls)

\* An entry that is invalid in one of the four ways C2 lists: its type tag is
\* not in the registry, its type disagrees with the discriminant its variant
\* derives, a structural-only variant's payload is not empty, or a nested
\* structure is malformed or missing where it is required.
InvalidEntry(p) ==
  \/ p.type \notin RegistryTags
  \/ /\ p.type \in RegistryTags
     /\ LET c == CONFIGS_MAPPING[p.type]
            v == IF p.key = c.field THEN p.val ELSE Absent
        IN  \/ p.type # c.field
            \/ c.annotation = "Dict" /\ v = NonEmptyDict
            \/ c.annotation # "Dict" /\ v = Malformed
            \/ c.annotation = "Required" /\ v = Absent

StructuralOnly ==
  {"title", "rich_text", "date", "people", "files", "checkbox", "url", "email",
   "phone_number", "created_time", "created_by", "last_edited_time", "last_edited_by"}

\* The value the payload gives the field named like its type tag.
Namesake(p) == IF p.key = p.type THEN p.val ELSE Absent

\* C3: for a payload whose type is one of the 13 structural-only tags,
\* parse_single_config raises when the namesake field is a non-empty mapping,
\* and returns a config whose type is the registry tag when the namesake field
\* is empty or absent.
C3_StructuralOnlyPayload ==
  (op = "parse_single_config" /\ data.type \in StructuralOnly) =>
    /\ Namesake(data) = NonEmptyDict => (error # NoError /\ result = NoConfig)
    /\ Namesake(data) \in {EmptyDict, Absent} =>
         /\ error = NoError
         /\ result.type = data.type
         /\ RegistryTagOf(result.cls) = data.type

C3_Witness ==
  /\ op = "parse_single_config"
  /\ data = [type |-> "phone_number", key |-> "phone_number", val |-> EmptyDict]
  /\ error = NoError
  /\ result.cls = "PhoneNumberConfig"
  /\ result.type = "phone_number"

\* C4: for every dataframe with at least one column and every title_col,
\* from_df returns a schema whose keys are the column names in column order,
\* whose designated title column (title_col, else the first column) holds the
\* title variant and whose other columns hold what inference returned.
C4_FromDfKeysAndTitle ==
  (op = "from_df" /\ Len(df.columns) >= 1) =>
    /\ error = NoError
    /\ Keys(schema) = Names(df)
    /\ LET t == IF title_col = None THEN df.columns[1].name ELSE title_col
       IN  /\ IsKey(t)
           /\ Get(schema, t).cls = "TitleConfig"
           /\ \A i \in 1..Len(df.columns) :
                df.columns[i].name # t =>
                  Get(schema, df.columns[i].name)
                    = infer_series_config(infer_objects(df.columns[i])).obj

\* The variant C5 states for a column, by data kind in the stated order.
ClaimedVariant(col) ==
  IF col.dtype = "object"
  THEN IF \A i \in 1..Len(col.cells) : col.cells[i].kind = "list"
       THEN "multi_select" ELSE "rich_text"
  ELSE IF col.dtype \in {"int64", "float64"} THEN "number"
  ELSE IF is_bool_dtype(col) THEN "checkbox"
  ELSE IF col.dtype = "category" THEN "select"
  ELSE IF col.dtype = "datetime64[ns]" THEN "date"
  ELSE "null"

\* C5: inference selects the variant by the column's data kind in the stated
\* order, a boolean column giving checkbox; and from_df on the dataframe
\* [name: text, age: integer, active: boolean, joined: datetime] with no
\* title_col gives {name: title, age: number, active: checkbox, joined: date}.
C5_InferenceByDataKind ==
  /\ (op = "infer_series_config" /\ error = NoError) =>
       VariantOf(result) = ClaimedVariant(column)
  /\ (op = "from_df" /\ df = ExampleDf /\ title_col = None) =>
       /\ error = NoError
       /\ [i \in 1..Len(schema) |-> VariantOf(schema[i].config)]
            = <<"title", "number", "checkbox", "date">>

\* C6: for an object column whose every value is list-like, inference gives
\* multi_select and hands SelectOptions.from_value exactly the string forms
\* of all elements of all rows, each once.
C6_MultiSelectOptions ==
  (/\ op = "infer_series_config"
   /\ column.dtype = "object"
   /\ \A i \in 1..Len(column.cells) : column.cells[i].kind = "list") =>
    /\ error = NoError
    /\ VariantOf(result) = "multi_select"
    /\ {handed[i] : i \in 1..Len(handed)}
         = UNION {{column.cells[i].items[j].s : j \in 1..Len(column.cells[i].items)} :
                    i \in 1..Len(column.cells)}
    /\ Distinct(handed)
AllColumnsAreKeys == \A i \in 1..Len(tdf.columns) : IsKey(tdf.columns[i].name)

Inferrable(col) ==
  LET r == infer_series_config(infer_objects(col))
  IN  r.ok /\ r.obj.cls # "NoneType"

\* C8: for a dataframe whose columns are all inferrable, transform of the
\* schema that from_df inferred from it, applied to it, raises nothing and
\* returns the same column names in the same order.
C8_FromDfThenTransform ==
  (/\ op = "transform"
   /\ origin = "from_df"
   /\ tdf = df
   /\ \A i \in 1..Len(df.columns) : Inferrable(df.columns[i])) =>
    (error = NoError /\ Names(out) = Names(tdf))

\* C9: after a transform that returned, every cell that was missing in the
\* input is missing in the output.
C9_MissingStaysMissing ==
  (op = "transform" /\ error = NoError) =>
    \A i \in 1..Len(tdf.columns) :
      \A j \in 1..Len(tdf.columns[i].cells) :
        tdf.columns[i].cells[j].kind = "missing" =>
          out.columns[i].cells[j].kind = "missing"

\* C10: for a categorical column (not boolean) inference gives select and
\* hands SelectOptions.from_value the category labels in string form, one per
\* label.
C10_SelectOptionsAreLabels ==
  (/\ op = "infer_series_config"
   /\ column.dtype = "category"
   /\ ~is_bool_dtype(column)) =>
    /\ VariantOf(result) = "select"
    /\ handed = [i \in 1..Len(column.categories) |-> column.categories[i].s]
====
